---- MODULE Spec2Model ----
(***************************************************************************)
(* A model of src/src/dmi.rs, the Determinant Mutual Information payment   *)
(* pipeline of the DMI trait: calculate_factorials, check_answers,         *)
(* get_mechanism, get_mutual_information, do_dmi and calculate_payments.   *)
(*                                                                         *)
(* Numbers.  A usize is 64 bits wide and 20! is the last factorial that    *)
(* fits; TLC's integers are 32 bits wide.  A usize is therefore a sequence *)
(* of base-10000 limbs, least significant first, without leading zeros     *)
(* (the empty sequence is 0), and the checked_* operations are computed on *)
(* the limbs and compared with usize::MAX.  An f32 is modelled by the exact   *)
(* real it approximates (rounding is not modelled): a determinant is the   *)
(* exact integer determinant, norm_factor is an exact integer, and a       *)
(* payment is a finite expansion in powers of 1 / norm_factor.             *)
(***************************************************************************)
EXTENDS Integers, Sequences, FiniteSets, TLC

(***************************************************************************)
(* Option<T> and Result<T, DMIError>                                       *)
(***************************************************************************)
None == <<>>

Some(x) == <<x>>

IsSome(o) == o # <<>>

Unwrap(o) == o[1]

Ok(v) == [tag |-> "Ok", val |-> v, err |-> "none"]

Err(e) == [tag |-> "Err", val |-> <<>>, err |-> e]

Panic(e) == [tag |-> "Panic", val |-> <<>>, err |-> e]

Pending == [tag |-> "Pending", val |-> <<>>, err |-> "none"]

IsOk(r) == r.tag = "Ok"

(***************************************************************************)
(* usize arithmetic on limb sequences (base 10000, least significant first)*)
(***************************************************************************)
RECURSIVE FromNat(_)
FromNat(n) == IF n = 0 THEN <<>> ELSE <<n % 10000>> \o FromNat(n \div 10000)

RECURSIVE ToNat(_)
ToNat(d) == IF d = <<>> THEN 0 ELSE Head(d) + 10000 * ToNat(Tail(d))

RECURSIVE Trim(_)
Trim(d) ==
  IF d = <<>> THEN <<>>
  ELSE IF d[Len(d)] = 0 THEN Trim(SubSeq(d, 1, Len(d) - 1))
  ELSE d

RECURSIVE AddCarry(_, _, _)
AddCarry(a, b, c) ==
  IF a = <<>> /\ b = <<>> THEN (IF c = 0 THEN <<>> ELSE <<c>>)
  ELSE LET x == IF a = <<>> THEN 0 ELSE Head(a)
           y == IF b = <<>> THEN 0 ELSE Head(b)
           s == x + y + c
       IN  <<s % 10000>> \o AddCarry(IF a = <<>> THEN <<>> ELSE Tail(a),
                                     IF b = <<>> THEN <<>> ELSE Tail(b),
                                     s \div 10000)

BigAdd(a, b) == AddCarry(a, b, 0)

\* a - b for a >= b
RECURSIVE SubBorrow(_, _, _)
SubBorrow(a, b, c) ==
  IF a = <<>> THEN <<>>
  ELSE LET y == IF b = <<>> THEN 0 ELSE Head(b)
           s == Head(a) - y - c
       IN  <<(s + 10000) % 10000>> \o SubBorrow(Tail(a),
                                                IF b = <<>> THEN <<>> ELSE Tail(b),
                                                IF s < 0 THEN 1 ELSE 0)

BigSub(a, b) == Trim(SubBorrow(a, b, 0))

\* a * k + c for a limb k
RECURSIVE MulLimb(_, _, _)
MulLimb(a, k, c) ==
  IF a = <<>> THEN (IF c = 0 THEN <<>> ELSE <<c>>)
  ELSE LET s == Head(a) * k + c
       IN  <<s % 10000>> \o MulLimb(Tail(a), k, s \div 10000)

RECURSIVE BigMul(_, _)
BigMul(a, b) ==
  IF a = <<>> \/ b = <<>> THEN <<>>
  ELSE Trim(BigAdd(MulLimb(b, Head(a), 0), <<0>> \o BigMul(Tail(a), b)))

RECURSIVE LeqFrom(_, _, _)
LeqFrom(a, b, k) ==
  IF k = 0 THEN TRUE
  ELSE IF a[k] # b[k] THEN a[k] < b[k]
  ELSE LeqFrom(a, b, k - 1)

BigLeq(a, b) ==
  IF Len(a) # Len(b) THEN Len(a) < Len(b) ELSE LeqFrom(a, b, Len(a))

\* the largest limb q in lo..hi with b * q <= r (b * lo <= r is given)
RECURSIVE QuotLimb(_, _, _, _)
QuotLimb(r, b, lo, hi) ==
  IF lo = hi THEN lo
  ELSE LET mid == (lo + hi + 1) \div 2
       IN  IF BigLeq(Trim(MulLimb(b, mid, 0)), r)
           THEN QuotLimb(r, b, mid, hi)
           ELSE QuotLimb(r, b, lo, mid - 1)

\* long division, from the most significant limb a[k] down, r the remainder
\* so far; b # 0
RECURSIVE DivFrom(_, _, _, _)
DivFrom(a, b, k, r) ==
  IF k = 0 THEN <<>>
  ELSE LET r1 == Trim(<<a[k]>> \o r)
           q  == QuotLimb(r1, b, 0, 9999)
       IN  DivFrom(a, b, k - 1, BigSub(r1, Trim(MulLimb(b, q, 0)))) \o <<q>>

BigDiv(a, b) == Trim(DivFrom(a, b, Len(a), <<>>))

\* usize::MAX = 2^64 - 1 = 1844 6744 0737 0955 1615
UsizeMax == <<1615, 955, 737, 6744, 1844>>

checked_mul(a, b) ==
  LET prod == BigMul(a, b) IN IF BigLeq(prod, UsizeMax) THEN Some(prod) ELSE None

checked_sub(a, b) == IF b <= a THEN Some(a - b) ELSE None

checked_div(a, b) == IF b = <<>> THEN None ELSE Some(BigDiv(a, b))

checked_pow2(a) == checked_mul(a, a)

\* Factorial::checked_factorial: 1 * 2 * ... * n with every product checked
RECURSIVE FactorialFrom(_, _, _)
FactorialFrom(acc, k, n) ==
  IF k > n THEN Some(acc)
  ELSE LET next == checked_mul(acc, FromNat(k))
       IN  IF IsSome(next) THEN FactorialFrom(Unwrap(next), k + 1, n) ELSE None

checked_factorial(n) == FactorialFrom(<<1>>, 2, n)

(***************************************************************************)
(* calculate_factorials: factorial(n) / (factorial(m) * factorial(n - m))  *)
(***************************************************************************)
calculate_factorials_sub_first(n, m) ==
  LET diff == checked_sub(n, m)
      fn   == checked_factorial(n)
      fm   == checked_factorial(m)
  IN  IF ~IsSome(diff) THEN Err("NLessThanM")
      ELSE IF ~IsSome(fn) \/ ~IsSome(fm) THEN Err("FactorialCalc")
      ELSE Ok(ToNat(BigDiv(Unwrap(fn),
                           BigMul(Unwrap(fm), Unwrap(checked_factorial(Unwrap(diff)))))))

calculate_factorials(n, m) ==
  LET factorial_n == checked_factorial(n)
      factorial_m == checked_factorial(m)
      diff        == checked_sub(n, m)
  IN  IF ~IsSome(factorial_n) THEN Err("FactorialCalc")
      ELSE IF ~IsSome(factorial_m) THEN Err("FactorialCalc")
      ELSE IF ~IsSome(diff) THEN Err("NLessThanM")
      ELSE LET factorial_n_minus_m == checked_factorial(Unwrap(diff))
           IN  IF ~IsSome(factorial_n_minus_m) THEN Err("FactorialCalc")
               ELSE LET factorial_mul_result ==
                          checked_mul(Unwrap(factorial_m), Unwrap(factorial_n_minus_m))
                    IN  IF ~IsSome(factorial_mul_result) THEN Err("FactorialMulCalc")
                        ELSE LET quot == checked_div(Unwrap(factorial_n),
                                                     Unwrap(factorial_mul_result))
                             IN  IF ~IsSome(quot) THEN Err("Arithmetic")
                                 ELSE Ok(ToNat(Unwrap(quot)))

(***************************************************************************)
(* Array2<usize>: a shape and a cell function over 0-based indices         *)
(***************************************************************************)
Indices(r, c) == (0..(r - 1)) \X (0..(c - 1))

Array2(r, c, cells) == [shape |-> <<r, c>>, at |-> cells]

\* .t()
Transposed(m) ==
  Array2(m.shape[2], m.shape[1],
         [ix \in Indices(m.shape[2], m.shape[1]) |-> m.at[<<ix[2], ix[1]>>]])

\* .split_at(Axis(0), k): the first k rows, and the rest
SplitAtAxis0(m, k) ==
  << Array2(k, m.shape[2],
            [ix \in Indices(k, m.shape[2]) |-> m.at[ix]]),
     Array2(m.shape[1] - k, m.shape[2],
            [ix \in Indices(m.shape[1] - k, m.shape[2]) |-> m.at[<<ix[1] + k, ix[2]>>]]) >>

\* .slice(s![r, ..]): row r as a sequence
SliceRow(m, r) == [k \in 1..m.shape[2] |-> m.at[<<r, k - 1>>]]

(***************************************************************************)
(* get_mechanism                                                           *)
(***************************************************************************)
check_answers_inclusive(x, c) == 0 <= x /\ x <= c

check_answers(x, c) == 0 <= x /\ x < c

Zeros(c) == [ix \in Indices(c, c) |-> 0]

Min(x, y) == IF x <= y THEN x ELSE y

\* the zip loop from pair k on
RECURSIVE MechanismFrom(_, _, _, _, _)
MechanismFrom(mechanism, a, b, c, k) ==
  IF k > Min(Len(a), Len(b)) THEN Ok(mechanism)
  ELSE IF check_answers(a[k], c) /\ check_answers(b[k], c)
       THEN MechanismFrom(IF <<a[k], b[k]>> \in DOMAIN mechanism
                          THEN [mechanism EXCEPT ![<<a[k], b[k]>>] = @ + 1]
                          ELSE mechanism,
                          a, b, c, k + 1)
       ELSE Err("AnswerValsOutOfScope")

get_mechanism(a, b, c) == MechanismFrom(Zeros(c), a, b, c, 1)

(***************************************************************************)
(* Determinant::det of a c x c matrix: the exact determinant, by expansion *)
(* along the first remaining row; a singular matrix has determinant 0      *)
(***************************************************************************)
RemoveAt(s, k) == SubSeq(s, 1, k - 1) \o SubSeq(s, k + 1, Len(s))

RECURSIVE Minor(_, _, _)
RECURSIVE Expand(_, _, _, _)
Minor(m, rows, cols) ==
  IF rows = <<>> THEN 1 ELSE Expand(m, rows, cols, 1)

Expand(m, rows, cols, k) ==
  IF k > Len(cols) THEN 0
  ELSE (IF k % 2 = 1 THEN 1 ELSE -1)
         * m[<<Head(rows), cols[k]>>]
         * (IF m[<<Head(rows), cols[k]>>] = 0 THEN 0
            ELSE Minor(m, Tail(rows), RemoveAt(cols, k)))
       + Expand(m, rows, cols, k + 1)

Det(m, c) ==
  LET ixs == [k \in 1..c |-> k - 1] IN Minor(m, ixs, ixs)

(***************************************************************************)
(* get_mutual_information                                                  *)
(***************************************************************************)
get_mutual_information_first_half(a1, b1, a2, b2, c) ==
  LET m1 == get_mechanism(a1, b1, c)
      m2 == get_mechanism(a2, b2, c)
  IN  IF ~IsOk(m1) THEN m1
      ELSE IF ~IsOk(m2) THEN m2
      ELSE Ok(Det(m1.val, c))

get_mutual_information(a1, b1, a2, b2, c) ==
  LET m1 == get_mechanism(a1, b1, c)
      m2 == get_mechanism(a2, b2, c)
  IN  IF ~IsOk(m1) THEN m1
      ELSE IF ~IsOk(m2) THEN m2
      ELSE Ok(Det(m1.val, c) * Det(m2.val, c))

(***************************************************************************)
(* f32 payments.  Every division of the payment loop is by the same        *)
(* norm_factor, so a payment is kept exactly, as the coefficients          *)
(* <<c0, c1, ..., cd>> of c0 + c1/norm + ... + cd/norm^d.  A division by   *)
(* zero gives an infinity or a NaN, kept as NotFinite (no coefficients).   *)
(***************************************************************************)
NotFinite == <<>>

F32Zero == <<0>>

F32Add(x, s) == IF x = NotFinite THEN NotFinite ELSE [x EXCEPT ![1] = @ + s]

F32Div(x, norm) ==
  IF x = NotFinite \/ norm = 0 THEN NotFinite ELSE <<0>> \o x

RECURSIVE Power(_, _)
Power(b, e) == IF e = 0 THEN 1 ELSE b * Power(b, e - 1)

\* x * norm^d, an integer when d >= Len(x) - 1
RECURSIVE Scaled(_, _, _)
Scaled(x, norm, d) ==
  IF x = <<>> THEN 0 ELSE Head(x) * Power(norm, d) + Scaled(Tail(x), norm, d - 1)

(***************************************************************************)
(* Bounds of the model, and the inputs                                     *)
(***************************************************************************)
MaxAgents == 3

MaxTasks == 6

MaxChoice == 3

MaxPattern == 4

\* an agent's answers repeat one of the first MaxPattern patterns
PatternList ==
  << <<0>>, <<0, 1>>, <<1, 0>>, <<0, 1, 1, 0>>, <<0, 1, 2>>, <<2, 2, 0, 1>> >>

PatternAnswer(k, t) == PatternList[k][(t % Len(PatternList[k])) + 1]

\* the answers of n agents to t tasks, agent r following pattern pat[r]
PatternAnswers(n, t, pat) ==
  Array2(n, t, [ix \in Indices(n, t) |-> PatternAnswer(pat[ix[1]], ix[2])])

\* a direct caller of calculate_payments passes no agent, one agent, its
\* number of rows, or one more
DirectAgents(rows) == {0, 1, rows, rows + 1} \cap (0..MaxAgents)

Empty == Array2(0, 0, [ix \in Indices(0, 0) |-> 0])

VARIABLES
  entry,        \* the function the caller invokes
  answers,      \* do_dmi's answers (agent_n x task_n)
  choice_n,
  agent_n,      \* calculate_payments' agent_n
  t1, t2,       \* calculate_payments' task halves
  pc,           \* "call", "loop" (the double loop of calculate_payments), "done"
  norm_factor,
  i, j,         \* the loop indices
  p,            \* agent i's running payment
  payments,
  pairs,        \* the pair (i, j) behind each entry of payments
  result,       \* what the call returned, or the panic that ended it
  args, ret     \* the argument and the result of a single function call

vars == <<entry, answers, choice_n, agent_n, t1, t2, pc, norm_factor, i, j, p,
          payments, pairs, result, args, ret>>

callVars == <<entry, answers, choice_n, agent_n, t1, t2, pc, norm_factor, i, j, p,
              payments, pairs, result>>

(***************************************************************************)
(* calculate_payments, lines 131-140: the normalization factor             *)
(***************************************************************************)
RECURSIVE checked_pow(_, _)
checked_pow(a, e) ==
  IF e = 0 THEN Some(<<1>>)
  ELSE LET rest == checked_pow(a, e - 1)
       IN  IF IsSome(rest) THEN checked_mul(Unwrap(rest), a) ELSE None

NormFactor_one_agent_fewer(n, c, h1, h2) ==
  LET prelim_agents == checked_sub(n, 2)
      fact          == checked_factorial(c)
  IN  IF ~IsSome(prelim_agents) THEN Err("TooFewAgentsForPaymentCalc")
      ELSE IF ~IsSome(fact) THEN Err("PaymentFactorialCalc")
      ELSE LET raised == checked_pow(Unwrap(fact), 2)
           IN  IF ~IsSome(raised) THEN Err("Exponentiate")
               ELSE LET prod == checked_mul(FromNat(Unwrap(prelim_agents)), Unwrap(raised))
                    IN  IF ~IsSome(prod) THEN Err("Arithmetic")
                        ELSE LET f1 == calculate_factorials(h1.shape[1], c)
                                 f2 == calculate_factorials(h2.shape[1], c)
                             IN  IF ~IsOk(f1) THEN f1
                                 ELSE IF ~IsOk(f2) THEN f2
                                 ELSE Ok(ToNat(Unwrap(prod)) * (f1.val * f2.val))

NormFactor(n, c, h1, h2) ==
  LET prelim_agents == checked_sub(n, 1)
      fact          == checked_factorial(c)
  IN  IF ~IsSome(prelim_agents) THEN Err("TooFewAgentsForPaymentCalc")
      ELSE IF ~IsSome(fact) THEN Err("PaymentFactorialCalc")
      ELSE LET raised == checked_pow(Unwrap(fact), 2)
           IN  IF ~IsSome(raised) THEN Err("Exponentiate")
               ELSE LET prod == checked_mul(FromNat(Unwrap(prelim_agents)), Unwrap(raised))
                    IN  IF ~IsSome(prod) THEN Err("Arithmetic")
                        ELSE LET f1 == calculate_factorials(h1.shape[1], c)
                                 f2 == calculate_factorials(h2.shape[1], c)
                             IN  IF ~IsOk(f1) THEN f1
                                 ELSE IF ~IsOk(f2) THEN f2
                                 ELSE Ok(ToNat(Unwrap(prod)) * (f1.val * f2.val))

\* do_dmi, lines 107-117: the two task halves handed to calculate_payments
Halves(m) ==
  LET parts == SplitAtAxis0(Transposed(m), m.shape[2] \div 2)
  IN  <<Transposed(parts[1]), Transposed(parts[2])>>

\* calculate_payments up to the loop
EnterPayments(n, h1, h2) ==
  LET norm == NormFactor(n, choice_n, h1, h2)
  IN  /\ t1' = h1
      /\ t2' = h2
      /\ IF IsOk(norm)
         THEN /\ norm_factor' = norm.val
              /\ pc' = "loop"
              /\ result' = result
         ELSE /\ norm_factor' = norm_factor
              /\ pc' = "done"
              /\ result' = norm
      /\ UNCHANGED <<entry, answers, choice_n, agent_n, i, j, p, payments, pairs,
                     args, ret>>

(***************************************************************************)
(* The calls                                                               *)
(***************************************************************************)
Init ==
  /\ entry \in {"do_dmi", "calculate_payments"}
  /\ \E n \in 0..MaxAgents, t \in 0..MaxTasks :
       \E pat \in [0..(n - 1) -> 1..MaxPattern] : answers = PatternAnswers(n, t, pat)
  /\ choice_n \in 1..MaxChoice
  /\ agent_n \in (IF entry = "do_dmi" THEN {answers.shape[1]}
                  ELSE DirectAgents(answers.shape[1]))
  /\ t1 = Empty
  /\ t2 = Empty
  /\ pc = "call"
  /\ norm_factor = 0
  /\ i = 0
  /\ j = 0
  /\ p = F32Zero
  /\ payments = <<>>
  /\ pairs = <<>>
  /\ result = Pending
  /\ args = <<>>
  /\ ret = Pending

Fail(r) ==
  /\ result' = r
  /\ pc' = "done"
  /\ UNCHANGED <<entry, answers, choice_n, agent_n, t1, t2, norm_factor, i, j, p,
                 payments, pairs, args, ret>>

DoDmi ==
  /\ pc = "call"
  /\ entry = "do_dmi"
  /\ LET task_n == answers.shape[2]
         halves == Halves(answers)
     IN  IF task_n < 2 * choice_n THEN Fail(Err("TooFewTasks"))
         ELSE IF answers.shape[1] <= 1 THEN Fail(Err("TooFewAgents"))
         ELSE EnterPayments(answers.shape[1], halves[1], halves[2])

CalculatePayments ==
  /\ pc = "call"
  /\ entry = "calculate_payments"
  /\ LET halves == Halves(answers)
     IN  EnterPayments(agent_n, halves[1], halves[2])

SkipPair_never(x, y) == FALSE

\* if i == j { continue; }
SkipPair(x, y) == x = y

\* for j: the pair (i, i) is skipped
SkipSelf ==
  /\ pc = "loop"
  /\ i < agent_n
  /\ j < agent_n
  /\ SkipPair(i, j)
  /\ j' = j + 1
  /\ UNCHANGED <<entry, answers, choice_n, agent_n, t1, t2, pc, norm_factor, i, p,
                 payments, pairs, result, args, ret>>

\* for j: lines 150-160 for the pair (i, j)
PayPair ==
  /\ pc = "loop"
  /\ i < agent_n
  /\ j < agent_n
  /\ ~SkipPair(i, j)
  /\ IF i >= t1.shape[1] \/ j >= t1.shape[1]
     THEN Fail(Panic("slice index out of bounds"))
     ELSE LET mi == get_mutual_information(SliceRow(t1, i), SliceRow(t1, j),
                                           SliceRow(t2, i), SliceRow(t2, j), choice_n)
          IN  IF ~IsOk(mi) THEN Fail(Panic(mi.err))
              ELSE /\ p' = F32Div(F32Add(p, mi.val), norm_factor)
                   /\ payments' = Append(payments, p')
                   /\ pairs' = Append(pairs, <<i, j>>)
                   /\ j' = j + 1
                   /\ UNCHANGED <<entry, answers, choice_n, agent_n, t1, t2, pc,
                                  norm_factor, i, result, args, ret>>

\* for i: the next agent, with a fresh running payment
NextAgent ==
  /\ pc = "loop"
  /\ i < agent_n
  /\ j >= agent_n
  /\ i' = i + 1
  /\ j' = 0
  /\ p' = F32Zero
  /\ UNCHANGED <<entry, answers, choice_n, agent_n, t1, t2, pc, norm_factor,
                 payments, pairs, result, args, ret>>

\* Ok(payments)
Return ==
  /\ pc = "loop"
  /\ i >= agent_n
  /\ result' = Ok(payments)
  /\ pc' = "done"
  /\ UNCHANGED <<entry, answers, choice_n, agent_n, t1, t2, norm_factor, i, j, p,
                 payments, pairs, args, ret>>

Next == DoDmi \/ CalculatePayments \/ SkipSelf \/ PayPair \/ NextAgent \/ Return

Spec == Init /\ [][Next]_vars

(***************************************************************************)
(* Single calls of calculate_factorials, get_mechanism and                 *)
(* get_mutual_information, on arguments drawn from bounded sets            *)
(***************************************************************************)
MaxFactorialArg == 22

MaxVecLen == 2

MaxAnswer == 2

NoCall ==
  /\ entry = "none"
  /\ answers = Empty
  /\ choice_n = 0
  /\ agent_n = 0
  /\ t1 = Empty
  /\ t2 = Empty
  /\ pc = "done"
  /\ norm_factor = 0
  /\ i = 0
  /\ j = 0
  /\ p = F32Zero
  /\ payments = <<>>
  /\ pairs = <<>>
  /\ result = Pending

\* the answer vectors of length len with entries in 0..top
Vectors(len, top) == [1..len -> 0..top]

InitFactorials ==
  /\ NoCall
  /\ args \in (0..MaxFactorialArg) \X (0..MaxFactorialArg)
  /\ ret = Pending

CallCalculateFactorials ==
  /\ ret = Pending
  /\ ret' = calculate_factorials(args[1], args[2])
  /\ UNCHANGED <<callVars, args>>

SpecFactorials == InitFactorials /\ [][CallCalculateFactorials]_vars

InitMechanism ==
  /\ NoCall
  /\ \E len \in 0..MaxVecLen :
       args \in Vectors(len, MaxAnswer) \X Vectors(len, MaxAnswer) \X (0..MaxAnswer)
  /\ ret = Pending

CallGetMechanism ==
  /\ ret = Pending
  /\ ret' = get_mechanism(args[1], args[2], args[3])
  /\ UNCHANGED <<callVars, args>>

SpecMechanism == InitMechanism /\ [][CallGetMechanism]_vars

InitMutualInformation ==
  /\ NoCall
  /\ \E len1 \in 0..MaxVecLen, len2 \in 0..MaxVecLen :
       args \in Vectors(len1, MaxAnswer - 1) \X Vectors(len1, MaxAnswer - 1)
                  \X Vectors(len2, MaxAnswer - 1) \X Vectors(len2, MaxAnswer - 1)
                  \X (1..MaxAnswer)
  /\ ret = Pending

CallGetMutualInformation ==
  /\ ret = Pending
  /\ ret' = get_mutual_information(args[1], args[2], args[3], args[4], args[5])
  /\ UNCHANGED <<callVars, args>>

SpecMutualInformation == InitMutualInformation /\ [][CallGetMutualInformation]_vars

(***************************************************************************)
(* Mathematical definitions the properties are stated with                 *)
(***************************************************************************)
Abs(x) == IF x < 0 THEN -x ELSE x

RECURSIVE Fact(_)
Fact(n) == IF n = 0 THEN 1 ELSE n * Fact(n - 1)

\* C(n, m) = n! / (m! * (n - m)!) for m <= n
Binomial(n, m) == Fact(n) \div (Fact(m) * Fact(n - m))

InScope(m, c) == \A ix \in DOMAIN m.at : m.at[ix] < c

\* the k-th agent other than x, in increasing order (k = 1, 2, ...)
Other(x, k) == IF k - 1 < x THEN k - 1 ELSE k

\* the pairwise score of agents x and y on the two task halves
Score(x, y) ==
  get_mutual_information(SliceRow(t1, x), SliceRow(t1, y),
                         SliceRow(t2, x), SliceRow(t2, y), choice_n).val

\* s_1 + ... + s_k, the scores of x against the first k other agents
RECURSIVE ScoreSum(_, _)
ScoreSum(x, k) == IF k = 0 THEN 0 ELSE Score(x, Other(x, k)) + ScoreSum(x, k - 1)

\* the sum of the first n cells of a c x c matrix, row by row
RECURSIVE CellSum(_, _, _)
CellSum(m, c, n) ==
  IF n = 0 THEN 0 ELSE m[<<(n - 1) \div c, (n - 1) % c>>] + CellSum(m, c, n - 1)

Returned == pc = "done" /\ result.tag = "Ok"

\* payments compared as reals: x * norm_factor^d for a common d
Degree(x, y) == (IF Len(x) >= Len(y) THEN Len(x) ELSE Len(y)) - 1

Numer(x, d) == Scaled(x, norm_factor, d)

IsPositive(x) == Numer(x, Len(x) - 1) > 0

IsLess(x, y) == Numer(x, Degree(x, y)) < Numer(y, Degree(x, y))

IsEqual(x, y) == Numer(x, Degree(x, y)) = Numer(y, Degree(x, y))

IsLessInMagnitude(x, y) == Abs(Numer(x, Degree(x, y))) < Abs(Numer(y, Degree(x, y)))

(***************************************************************************)
(* C1.  Whenever do_dmi reaches the payment loop, the normalization factor *)
(* is (agent_n - 1) * factorial(choice_n)^2 * C(half, choice_n) *          *)
(* C(task_n - half, choice_n), half = task_n / 2: the binomial terms are   *)
(* over the two task-half sizes.                                           *)
(***************************************************************************)
C1_NormOverTaskHalves ==
  (entry = "do_dmi" /\ pc = "loop") =>
    LET task_n == answers.shape[2]
        half   == task_n \div 2
    IN  norm_factor = (agent_n - 1) * Fact(choice_n) * Fact(choice_n)
                        * Binomial(half, choice_n)
                        * Binomial(task_n - half, choice_n)

(***************************************************************************)
(* C2.  A successful get_mutual_information returns |det(m1) * det(m2)|,   *)
(* so its result is never negative.                                        *)
(***************************************************************************)
C2_AbsoluteValue ==
  (ret.tag = "Ok") =>
    LET m1 == get_mechanism(args[1], args[2], args[5]).val
        m2 == get_mechanism(args[3], args[4], args[5]).val
    IN  /\ ret.val = Abs(Det(m1, args[5]) * Det(m2, args[5]))
        /\ ret.val >= 0

(***************************************************************************)
(* C3.  A do_dmi call that does not return a payment vector returns a      *)
(* typed Err(DMIError): a failing pairwise get_mutual_information ends the *)
(* call with that error as the returned value, never by another kind of    *)
(* termination.                                                            *)
(***************************************************************************)
C3_FailuresAreReturned ==
  (entry = "do_dmi" /\ pc = "done" /\ result.tag # "Ok") => result.tag = "Err"

(***************************************************************************)
(* C4.  On a successful do_dmi call, the k-th value of agent x's run is    *)
(* (s_1 + ... + s_k) / norm, s_1..s_k the pairwise scores of x against the *)
(* first k other agents: the partial sum divided by norm exactly once.     *)
(***************************************************************************)
C4_PartialSumDividedOnce ==
  (entry = "do_dmi" /\ Returned) =>
    \A x \in 0..(agent_n - 1), k \in 1..(agent_n - 1) :
      LET v == result.val[x * (agent_n - 1) + k]
      IN  Numer(v, Len(v) - 1)
            = ScoreSum(x, k) * Power(norm_factor, Len(v) - 2)

(***************************************************************************)
(* C5.  A successful do_dmi call returns agent_n * (agent_n - 1) entries,  *)
(* agent_n runs of agent_n - 1, run x holding the pairs (x, y), y # x, in  *)
(* increasing y; inside the double loop the length is i * (agent_n - 1)    *)
(* plus the number of y # i already processed.                             *)
(***************************************************************************)
C5_OutputLayout ==
  (entry = "do_dmi") =>
    /\ Len(pairs) = Len(payments)
    /\ (pc = "loop" /\ i < agent_n) =>
         Len(payments) = i * (agent_n - 1) + Cardinality({y \in 0..(j - 1) : y # i})
    /\ (pc = "loop" /\ i >= agent_n) => Len(payments) = agent_n * (agent_n - 1)
    /\ Returned =>
         /\ Len(result.val) = agent_n * (agent_n - 1)
         /\ \A x \in 0..(agent_n - 1), k \in 1..(agent_n - 1) :
              pairs[x * (agent_n - 1) + k] = <<x, Other(x, k)>>

C5_Witness ==
  entry = "do_dmi" /\ Returned /\ agent_n = 3 /\ Len(result.val) = 6

(***************************************************************************)
(* C6.  For choice_n >= 1, agent_n > 1 and answers all in [0, choice_n):   *)
(* do_dmi fails with TooFewTasks when task_n = 2 * choice_n - 1 and        *)
(* succeeds when task_n = 2 * choice_n.                                    *)
(***************************************************************************)
C6_TaskBoundary ==
  (/\ entry = "do_dmi"
   /\ pc = "done"
   /\ choice_n >= 1
   /\ answers.shape[1] > 1
   /\ InScope(answers, choice_n)) =>
    /\ answers.shape[2] = 2 * choice_n - 1 =>
         (result.tag = "Err" /\ result.err = "TooFewTasks")
    /\ answers.shape[2] = 2 * choice_n => result.tag = "Ok"

(***************************************************************************)
(* C7.  For m > n, calculate_factorials(n, m) fails with NLessThanM,       *)
(* however large n or m is, and with no other error.                       *)
(***************************************************************************)
C7_AlwaysNLessThanM ==
  (ret.tag # "Pending" /\ args[2] > args[1]) =>
    (ret.tag = "Err" /\ ret.err = "NLessThanM")

\* C7, amended.  For m > n, calculate_factorials(n, m) fails with NLessThanM
\* when n! and m! both fit a usize (n <= 20 and m <= 20), and with
\* FactorialCalc when one of them does not: the factorials are taken before
\* the subtraction.
C7_NLessThanMWhenFactorialsFit ==
  (ret.tag # "Pending" /\ args[2] > args[1]) =>
    /\ ret.tag = "Err"
    /\ ret.err = (IF args[1] <= 20 /\ args[2] <= 20 THEN "NLessThanM"
                  ELSE "FactorialCalc")

C7_Witness ==
  ret.tag = "Err" /\ ret.err = "NLessThanM" /\ args[1] = 3 /\ args[2] = 20

(***************************************************************************)
(* C8.  For choice_n = 2 and the rows [0,1,0,1], [0,1,0,1], [1,0,1,0],     *)
(* do_dmi returns 6 entries; those of the pairs (0,1) and (1,0) (indices 0 *)
(* and 2) are strictly positive and strictly larger in magnitude than the  *)
(* entries of the pairs with agent 2 (indices 1, 3, 4, 5).                 *)
(***************************************************************************)
ScenarioRows == << <<0, 1, 0, 1>>, <<0, 1, 0, 1>>, <<1, 0, 1, 0>> >>

ScenarioAnswers ==
  Array2(3, 4, [ix \in Indices(3, 4) |-> ScenarioRows[ix[1] + 1][ix[2] + 1]])

Scenario == entry = "do_dmi" /\ choice_n = 2 /\ answers = ScenarioAnswers

C8_AgreeingPairLargest ==
  (Scenario /\ pc = "done") =>
    /\ result.tag = "Ok"
    /\ Len(result.val) = 6
    /\ \A k \in {1, 3} :
         /\ IsPositive(result.val[k])
         /\ \A m \in {2, 4, 5, 6} : IsLessInMagnitude(result.val[m], result.val[k])

\* C8, amended.  In that scenario do_dmi returns 6 entries; those of the
\* pairs (0,1) and (1,0) (indices 0 and 2) are strictly positive, but not
\* larger than any entry with agent 2: they equal the entry at index 4 and
\* are strictly smaller than the entries at indices 1, 3 and 5.
C8_AgreeingPairNotLargest ==
  (Scenario /\ pc = "done") =>
    /\ result.tag = "Ok"
    /\ Len(result.val) = 6
    /\ \A k \in {1, 3} :
         /\ IsPositive(result.val[k])
         /\ IsEqual(result.val[k], result.val[5])
         /\ \A m \in {2, 4, 6} : IsLess(result.val[k], result.val[m])

C8_Witness == Scenario /\ Returned /\ Len(payments) = 6

(***************************************************************************)
(* C9.  For equal-length a and b, get_mechanism(a, b, choice_n) returns    *)
(* Err(AnswerValsOutOfScope) if some entry of a or b is >= choice_n, and   *)
(* otherwise the choice_n x choice_n matrix whose cell (x, y) counts the   *)
(* positions k with a[k] = x and b[k] = y; the cells sum to len(a).        *)
(***************************************************************************)
C9_MechanismCounts ==
  (ret.tag # "Pending") =>
    LET a == args[1]
        b == args[2]
        c == args[3]
        cells == (0..(c - 1)) \X (0..(c - 1))
    IN  IF \E k \in 1..Len(a) : a[k] >= c \/ b[k] >= c
        THEN ret.tag = "Err" /\ ret.err = "AnswerValsOutOfScope"
        ELSE /\ ret.tag = "Ok"
             /\ DOMAIN ret.val = cells
             /\ \A ix \in cells :
                  ret.val[ix] = Cardinality({k \in 1..Len(a) : <<a[k], b[k]>> = ix})
             /\ CellSum(ret.val, c, c * c) = Len(a)

C9_Witness ==
  /\ ret.tag = "Ok"
  /\ args = << <<0, 1>>, <<1, 1>>, 2 >>
  /\ ret.val[<<0, 1>>] = 1
  /\ ret.val[<<1, 1>>] = 1

(***************************************************************************)
(* C10.  Whenever the payment loop divides the running sum by norm_factor, *)
(* norm_factor >= 1, in a call through do_dmi or a direct one; a           *)
(* norm_factor of 0 (agent_n = 1) only goes with an inner loop body that   *)
(* is never reached.                                                       *)
(***************************************************************************)
BodyReached == pc = "loop" /\ i < agent_n /\ j < agent_n /\ ~SkipPair(i, j)

C10_NoDivisionByZero ==
  /\ (BodyReached \/ Len(payments) > 0) => norm_factor >= 1
  /\ (pc = "loop" /\ norm_factor = 0) => (agent_n = 1 /\ ~BodyReached)

C10_Witness ==
  /\ entry = "calculate_payments"
  /\ pc = "loop"
  /\ Len(payments) > 0
  /\ norm_factor >= 1

====
